---------------------------- MODULE Spec2Model ----------------------------
(***************************************************************************)
(* go-ipocalypse: the concurrent container-launch pool of main.go and the  *)
(* host network detection of the earlier, self-contained main program      *)
(* (kept in utils/), as state machines.                                    *)
(*                                                                         *)
(*   Spec        main.go: flag handling, network setup, image builds, the  *)
(*               worker goroutines, the coordinator's select and wg.Wait.  *)
(*   DetectSpec  detectNetworkConfig with getInterfaceIP and               *)
(*               detectFallbackInterface, run on a host state drawn from   *)
(*               small sets of route / link / address command outputs.     *)
(*               The earlier main's steps after the detection follow:      *)
(*               Docker client, builds, ensureMacvlanNetwork.              *)
(*   EntSpec     entrypoint.sh of the basic image: interface detection,    *)
(*               the DHCP retry loop, the monitoring loop, the trap.       *)
(*   CleanSpec   cleanup_network.sh: the root check, the removal of the    *)
(*               Docker network, the route-deletion loop, the deletion of  *)
(*               macvlan0; the script may be run again on the same host.   *)
(*                                                                         *)
(* Text is kept as text: flags, paths, error messages and command outputs  *)
(* are strings, and HasPrefix, Contains, Split, Fields, TrimSpace, Base    *)
(* and ParseCIDR work on their characters.                                 *)
(***************************************************************************)
EXTENDS Integers, Sequences, FiniteSets, Bags, TLC

\* ------------------------------------------------------------------ bounds
\* largest value of the -workers flag that is explored
MaxWorkers == 2
\* addresses the DHCP server of the segment can still lease
PoolSize == 1
\* create / start / inspect errors the Docker daemon answers in one run
MaxFailures == 2
\* default-route entries in the route table
MaxRoutes == 2
\* rounds of the entrypoint's monitoring loop that are followed
MaxRounds == 2
\* runs of the cleanup script on the same host, one after the other
MaxRuns == 2

\* ------------------------------------------------------- program constants
\* errorChan := make(chan error, 1)
ErrorChanCap == 1

\* --------------------------------------------------------------- text help
\* the i-th character of s, as a string of length 1
Char(s, i) == SubSeq(s, i, i)

\* strings.HasPrefix
HasPrefix(s, p) == Len(s) >= Len(p) /\ SubSeq(s, 1, Len(p)) = p

\* strings.Index: the first position at which p occurs in s, 0 when none
\* (Go's -1; Go counts from 0, the positions here from 1)
Index(s, p) ==
  LET hits == {i \in 1..(Len(s) + 1) :
                 i + Len(p) - 1 <= Len(s) /\ SubSeq(s, i, i + Len(p) - 1) = p}
  IN IF hits = {} THEN 0 ELSE CHOOSE i \in hits : \A j \in hits : i <= j

\* strings.Contains
Contains(s, p) == Index(s, p) # 0

\* strings.Split(s, sep) for a one-character separator
RECURSIVE Split(_, _)
Split(s, sep) ==
  LET i == Index(s, sep)
  IN IF i = 0 THEN <<s>>
     ELSE <<SubSeq(s, 1, i - 1)>> \o Split(SubSeq(s, i + 1, Len(s)), sep)

\* unicode.IsSpace on the characters that occur in command output
IsSpace(c) == c \in {" ", "\t", "\n"}

\* least and greatest element of a non-empty set of positions
MinOf(S) == CHOOSE i \in S : \A j \in S : i <= j
MaxOf(S) == CHOOSE i \in S : \A j \in S : i >= j

\* strings.TrimSpace: from the first to the last non-space character
TrimSpace(s) ==
  LET keep == {i \in 1..Len(s) : ~IsSpace(Char(s, i))}
  IN IF keep = {} THEN "" ELSE SubSeq(s, MinOf(keep), MaxOf(keep))

\* the run of non-space characters of s that starts at position i
FieldAt(s, i) ==
  LET stops == {j \in i..Len(s) : j = Len(s) \/ IsSpace(Char(s, j + 1))}
  IN SubSeq(s, i, MinOf(stops))

\* the fields that start at the given positions, in the order of the positions
RECURSIVE FieldsAt(_, _)
FieldsAt(s, starts) ==
  IF starts = {} THEN <<>>
  ELSE LET i == MinOf(starts)
       IN <<FieldAt(s, i)>> \o FieldsAt(s, starts \ {i})

\* strings.Fields: the maximal runs of non-space characters, in order
Fields(s) ==
  FieldsAt(s, {i \in 1..Len(s) :
                 /\ ~IsSpace(Char(s, i))
                 /\ (i = 1 \/ IsSpace(Char(s, i - 1)))})

\* bufio.Scanner with ScanLines: the lines of s without their line ends;
\* a final line end opens no further line
Lines(s) ==
  IF s = "" THEN <<>>
  ELSE IF Char(s, Len(s)) = "\n" THEN Split(SubSeq(s, 1, Len(s) - 1), "\n")
       ELSE Split(s, "\n")

\* filepath.Base: the last element of a path; trailing slashes are dropped
\* first, the empty path is ".", a path of slashes only is "/"
StripSlashes(s) ==
  LET keep == {i \in 1..Len(s) : Char(s, i) # "/"}
  IN IF keep = {} THEN "" ELSE SubSeq(s, 1, MaxOf(keep))

Base(path) ==
  IF path = "" THEN "."
  ELSE LET p == StripSlashes(path)
           parts == Split(p, "/")
       IN IF p = "" THEN "/" ELSE parts[Len(parts)]

\* ------------------------------------------------------------ error values
\* a nil error
Nil == ""

\* fmt.Errorf("container did not receive an IP address")
NoIPError == "container did not receive an IP address"

\* errors of the Docker daemon for ContainerCreate / Start / Inspect
CreateErrors  == {"Error response from daemon: No such image"}
StartErrors   == {"Error response from daemon: failed to create endpoint"}
InspectErrors == {"Error response from daemon: No such container"}

\* isNoIPError as a plausible slip: every non-nil error counts as exhaustion
isNoIPErrorAnyError(err) == err # Nil

\* isNoIPError: the message contains "did not receive an IP address"
isNoIPError(err) ==
  IF err = Nil THEN FALSE
  ELSE Contains(err, "did not receive an IP address")

\* ------------------------------------------------------- directories, flags
\* values of the -dockerfiles flag; "" is the omitted flag
DockerfilesFlags ==
  { "",
    "ipocalypse_basic_image,imgs/ipocalypse_custom/",
    "ipocalypse_x/web",
    "ipocalypse_basic_image,,ipocalypse_custom" }

\* listings of "." as os.ReadDir gives them: a name and the IsDir bit
DirListings ==
  { <<>>,
    << [name |-> "ipocalypse_basic_image", isDir |-> TRUE],
       [name |-> "utils", isDir |-> TRUE],
       [name |-> "ipocalypse_custom", isDir |-> TRUE] >>,
    << [name |-> "ipocalypse", isDir |-> FALSE],
       [name |-> "main.go", isDir |-> FALSE] >> }

\* the loop of getIpocalypseDirs over the entries of "."
RECURSIVE FilterIpocalypse(_)
FilterIpocalypse(entries) ==
  IF entries = <<>> THEN <<>>
  ELSE LET e == Head(entries)
           rest == FilterIpocalypse(Tail(entries))
       IN IF e.isDir /\ HasPrefix(e.name, "ipocalypse")
          THEN <<"./" \o e.name>> \o rest
          ELSE rest

\* getIpocalypseDirs: [ok, dirs]; an unreadable "." or no match is an error
getIpocalypseDirs(readOk, entries) ==
  IF ~readOk THEN [ok |-> FALSE, dirs |-> <<>>]
  ELSE LET dirs == FilterIpocalypse(entries)
       IN IF Len(dirs) = 0 THEN [ok |-> FALSE, dirs |-> <<>>]
          ELSE [ok |-> TRUE, dirs |-> dirs]

\* the validation with the prefix looked for in the path as it was given
AllDirsValidWholePath(list) ==
  \A i \in 1..Len(list) : HasPrefix(list[i], "ipocalypse")

\* the validation loop of main over the directories given by flag
AllDirsValid(list) ==
  \A i \in 1..Len(list) : HasPrefix(Base(list[i]), "ipocalypse")

\* imageName := fmt.Sprintf("%s:latest", filepath.Base(dir))
ImageName(dir) == Base(dir) \o ":latest"

\* ------------------------------------------------------------------ state
VARIABLES
  dockerfileDirs,  \* the -dockerfiles flag
  workers,         \* the -workers flag
  mainPc,          \* where the main goroutine stands
  exited,          \* the process has ended
  exitCode,        \* its exit status, meaningful once exited
  failure,         \* the step whose error message was printed, "" for none
  dockerfileList,  \* directories to build
  imageNames,      \* names of the images built so far
  spawned,         \* loop variable i of the spawn loop
  ctxDone,         \* the context of context.WithCancel is cancelled
  errorChan,       \* buffered channel of errors, oldest first
  wgCount,         \* counter of the sync.WaitGroup
  reported,        \* times "Stopping container launches due to error" printed
  wpc,             \* where each worker goroutine stands
  werr,            \* err of the worker's last launchContainer
  wcid,            \* containerID the worker got back: 0 for "", else the
                   \* id of the container of its current pass
  cont,            \* per worker: the container of its current pass
  past,            \* bag of the containers of earlier passes
  free,            \* addresses the DHCP server can still lease
  nFail,           \* daemon errors answered so far
  lateBegin,       \* per worker: calls of launchContainer begun after cancel
  lateDone,        \* per worker: calls of launchContainer returned after cancel
  nNoIP,           \* attempts that returned the no-address error so far
  dpc,             \* detection: where detectNetworkConfig stands
  host,            \* detection: what the ip commands answer on this host
  det,             \* detection: locals and results of detectNetworkConfig
  net,             \* earlier main: parent, subnet, gateway, hostIPWithCIDR
  networks,        \* earlier main: the networks the Docker daemon has
  epc,             \* entrypoint.sh: where the script stands
  INTERFACE,       \* entrypoint.sh: the shell variable INTERFACE
  attempt,         \* entrypoint.sh: the shell variable attempt
  ent,             \* entrypoint.sh: the container's links and what the script did
  cpc,             \* cleanup_network.sh: where the script stands
  clean            \* cleanup_network.sh: the host, the variable route, the status

poolVars == <<ctxDone, errorChan, wgCount, reported, wpc, werr, wcid, cont, past,
              free, nFail, lateBegin, lateDone, nNoIP>>
mainVars == <<dockerfileDirs, workers, mainPc, exited, exitCode, failure,
              dockerfileList, imageNames, spawned>>
detVars  == <<dpc, host, det, net, networks>>
entVars  == <<epc, INTERFACE, attempt, ent>>
cleanVars == <<cpc, clean>>
vars     == <<mainVars, poolVars, detVars, entVars, cleanVars>>

WorkerIds == 1..MaxWorkers

\* detection is not running
DetIdle ==
  /\ dpc = "off"
  /\ host = [routeOk |-> TRUE, routeOut |-> "", linkOk |-> TRUE, linkOut |-> "",
             addrs |-> <<>>]
  /\ det = [iface |-> "", ipWithCIDR |-> "", subnet |-> "", gateway |-> "",
            err |-> Nil]
  /\ net = [parent |-> "", subnet |-> "", gateway |-> "", hostIPWithCIDR |-> "",
            networkID |-> ""]
  /\ networks = {}

\* no entrypoint script is running
EntIdle ==
  /\ epc = "off"
  /\ INTERFACE = ""
  /\ attempt = 0
  /\ ent = [links |-> "", code |-> 0, tries |-> 0, waits |-> 0, leased |-> FALSE,
            monitored |-> FALSE, rounds |-> 0, signalled |-> FALSE,
            released |-> <<>>]

\* no cleanup script is running
CleanIdle ==
  /\ cpc = "off"
  /\ clean = [euid |-> 0, net |-> FALSE, link |-> FALSE, routes |-> <<>>,
              route |-> "", code |-> 0, runs |-> 0]

\* the pool before main reaches it
PoolIdle ==
  /\ ctxDone = FALSE
  /\ errorChan = <<>>
  /\ wgCount = 0
  /\ reported = 0
  /\ wpc = [w \in WorkerIds |-> "unspawned"]
  /\ werr = [w \in WorkerIds |-> Nil]
  /\ wcid = [w \in WorkerIds |-> 0]
  /\ cont = [w \in WorkerIds |-> [st |-> "none", ip |-> "", removeIssued |-> FALSE]]
  /\ past = EmptyBag
  /\ free = PoolSize
  /\ nFail = 0
  /\ lateBegin = [w \in WorkerIds |-> 0]
  /\ lateDone = [w \in WorkerIds |-> 0]
  /\ nNoIP = 0

\* main.go after flag.Parse()
Init ==
  /\ dockerfileDirs \in DockerfilesFlags
  /\ workers \in 0..MaxWorkers
  /\ mainPc = "dirs"
  /\ exited = FALSE
  /\ exitCode = 0
  /\ failure = ""
  /\ dockerfileList = <<>>
  /\ imageNames = <<>>
  /\ spawned = 0
  /\ PoolIdle
  /\ DetIdle
  /\ EntIdle
  /\ CleanIdle

\* ------------------------------------------------------ main: before workers
\* os.Exit(code)
Exit(code) ==
  /\ mainPc' = "exited"
  /\ exited' = TRUE
  /\ exitCode' = code

\* an error message is printed for a failed step, then os.Exit(1)
Fail(step) ==
  /\ failure' = step
  /\ Exit(1)

\* lines 64-83: discover the directories or split and validate the flag
MainResolveDirs ==
  /\ mainPc = "dirs"
  /\ IF dockerfileDirs = ""
     THEN \E readOk \in BOOLEAN, entries \in DirListings :
            LET r == getIpocalypseDirs(readOk, entries)
            IN IF r.ok
               THEN /\ dockerfileList' = r.dirs
                    /\ mainPc' = "setup"
                    /\ UNCHANGED <<exited, exitCode, failure>>
               ELSE /\ Fail("discover")
                    /\ UNCHANGED dockerfileList
     ELSE LET list == Split(dockerfileDirs, ",")
          IN IF AllDirsValid(list)
             THEN /\ dockerfileList' = list
                  /\ mainPc' = "setup"
                  /\ UNCHANGED <<exited, exitCode, failure>>
             ELSE /\ Fail("dirname")
                  /\ UNCHANGED dockerfileList
  /\ UNCHANGED <<dockerfileDirs, workers, imageNames, spawned, poolVars, detVars, entVars, cleanVars>>

\* lines 85-100: run utils/setup_network.sh; a failing script ends the run
MainSetupNetwork ==
  /\ mainPc = "setup"
  /\ \E ok \in BOOLEAN :
       IF ok THEN mainPc' = "client" /\ UNCHANGED <<exited, exitCode, failure>>
             ELSE Fail("network")
  /\ UNCHANGED <<dockerfileDirs, workers, dockerfileList, imageNames, spawned,
                 poolVars, detVars, entVars, cleanVars>>

\* lines 105-110: client.NewClientWithOpts
MainDockerClient ==
  /\ mainPc = "client"
  /\ \E ok \in BOOLEAN :
       IF ok THEN mainPc' = "build" /\ UNCHANGED <<exited, exitCode, failure>>
             ELSE Fail("client")
  /\ UNCHANGED <<dockerfileDirs, workers, dockerfileList, imageNames, spawned,
                 poolVars, detVars, entVars, cleanVars>>

\* lines 113-123: one pass of the build loop
MainBuildImage ==
  /\ mainPc = "build"
  /\ Len(imageNames) < Len(dockerfileList)
  /\ \E ok \in BOOLEAN :
       IF ok
       THEN /\ imageNames' =
                 Append(imageNames, ImageName(dockerfileList[Len(imageNames) + 1]))
            /\ UNCHANGED <<mainPc, exited, exitCode, failure>>
       ELSE /\ Fail("build")
            /\ UNCHANGED imageNames
  /\ UNCHANGED <<dockerfileDirs, workers, dockerfileList, spawned, poolVars, detVars, entVars, cleanVars>>

\* the workers started as soon as one image is there
MainStartWorkersEarly ==
  /\ mainPc = "build"
  /\ Len(imageNames) >= 1
  /\ mainPc' = "spawn"
  /\ spawned' = 0
  /\ UNCHANGED <<dockerfileDirs, workers, exited, exitCode, failure, dockerfileList,
                 imageNames, poolVars, detVars, entVars, cleanVars>>

\* lines 126-134: all images built; context, WaitGroup and channel are made
MainStartWorkers ==
  /\ mainPc = "build"
  /\ Len(imageNames) = Len(dockerfileList)
  /\ mainPc' = "spawn"
  /\ spawned' = 0
  /\ UNCHANGED <<dockerfileDirs, workers, exited, exitCode, failure, dockerfileList,
                 imageNames, poolVars, detVars, entVars, cleanVars>>

\* lines 136-138: wg.Add(1) and go func(workerID) for i < workers
MainSpawn ==
  /\ mainPc = "spawn"
  /\ spawned < workers
  /\ wgCount' = wgCount + 1
  /\ wpc' = [wpc EXCEPT ![spawned + 1] = "select"]
  /\ spawned' = spawned + 1
  /\ UNCHANGED <<dockerfileDirs, workers, mainPc, exited, exitCode, failure,
                 dockerfileList,
                 imageNames, ctxDone, errorChan, reported, werr, wcid, cont,
                 past, free, nFail, lateBegin, lateDone, nNoIP, detVars, entVars, cleanVars>>

\* line 136: the spawn loop ends when i reaches workers
MainSpawnDone ==
  /\ mainPc = "spawn"
  /\ spawned >= workers
  /\ mainPc' = "select"
  /\ UNCHANGED <<dockerfileDirs, workers, exited, exitCode, failure, dockerfileList,
                 imageNames, spawned, poolVars, detVars, entVars, cleanVars>>

\* ------------------------------------------------------------ the workers
\* no container: the attempt has not created one
NoContainer == [st |-> "none", ip |-> "", removeIssued |-> FALSE]

\* the goroutine returns; the deferred wg.Done() runs
WorkerReturn(w) ==
  /\ wpc' = [wpc EXCEPT ![w] = "done"]
  /\ wgCount' = wgCount - 1

\* the loop-top select without its ctx.Done() case
WorkerCheckCtxNoDoneCase(w) ==
  /\ wpc[w] = "select"
  /\ wpc' = [wpc EXCEPT ![w] = "default"]
  /\ UNCHANGED <<wgCount, mainVars, ctxDone, errorChan, reported, werr, wcid, cont,
                 past, free, nFail, lateBegin, lateDone, nNoIP, detVars, entVars, cleanVars>>

\* lines 141-144: select { case <-ctx.Done(): return; default: ... }
WorkerCheckCtx(w) ==
  /\ wpc[w] = "select"
  /\ IF ctxDone THEN WorkerReturn(w)
                ELSE wpc' = [wpc EXCEPT ![w] = "default"] /\ UNCHANGED wgCount
  /\ UNCHANGED <<mainVars, ctxDone, errorChan, reported, werr, wcid, cont, past,
                 free, nFail, lateBegin, lateDone, nNoIP, detVars, entVars, cleanVars>>

\* lines 146-147: pick an image at random (rand.Intn needs a non-empty list)
\* and call launchContainer; containerID and err are fresh in each pass, and
\* the container of the pass before stays with the daemon
WorkerBegin(w) ==
  /\ wpc[w] = "default"
  /\ \E i \in 1..Len(imageNames) : imageNames[i] # ""
  /\ wpc' = [wpc EXCEPT ![w] = "create"]
  /\ werr' = [werr EXCEPT ![w] = Nil]
  /\ wcid' = [wcid EXCEPT ![w] = 0]
  /\ cont' = [cont EXCEPT ![w] = NoContainer]
  /\ past' = IF cont[w].st = "none" THEN past ELSE past (+) SetToBag({cont[w]})
  /\ lateBegin' = [lateBegin EXCEPT ![w] = IF ctxDone THEN @ + 1 ELSE @]
  /\ UNCHANGED <<mainVars, ctxDone, errorChan, wgCount, reported, free, nFail,
                 lateDone, nNoIP, detVars, entVars, cleanVars>>

\* launchContainer returns (id, err) to the worker
Return(w, id, err) ==
  /\ wcid' = [wcid EXCEPT ![w] = id]
  /\ werr' = [werr EXCEPT ![w] = err]
  /\ wpc' = [wpc EXCEPT ![w] = "returned"]

\* a call of launchContainer that returns in this step after the context was
\* cancelled is counted for its worker
CountLate(w) ==
  lateDone' = [lateDone EXCEPT ![w] =
                 IF wpc'[w] = "returned" /\ ctxDone THEN @ + 1 ELSE @]

\* lines 223-226: cli.ContainerCreate
ContainerCreate(w) ==
  /\ wpc[w] = "create"
  /\ \/ /\ nFail < MaxFailures
        /\ \E e \in CreateErrors : Return(w, 0, e)
        /\ nFail' = nFail + 1
        /\ UNCHANGED cont
     \/ /\ cont' = [cont EXCEPT ![w].st = "created"]
        /\ wcid' = [wcid EXCEPT ![w] = w]
        /\ wpc' = [wpc EXCEPT ![w] = "start"]
        /\ UNCHANGED <<werr, nFail>>
  /\ CountLate(w)
  /\ UNCHANGED <<mainVars, ctxDone, errorChan, wgCount, reported, past, free,
                 lateBegin, nNoIP, detVars, entVars, cleanVars>>

\* lines 227-229: cli.ContainerStart
ContainerStart(w) ==
  /\ wpc[w] = "start"
  /\ \/ /\ nFail < MaxFailures
        /\ \E e \in StartErrors : Return(w, wcid[w], e)
        /\ nFail' = nFail + 1
        /\ UNCHANGED cont
     \/ /\ cont' = [cont EXCEPT ![w].st = "running"]
        /\ wpc' = [wpc EXCEPT ![w] = "sleep10"]
        /\ UNCHANGED <<werr, wcid, nFail>>
  /\ CountLate(w)
  /\ UNCHANGED <<mainVars, ctxDone, errorChan, wgCount, reported, past, free,
                 lateBegin, nNoIP, detVars, entVars, cleanVars>>

\* the address of the k-th lease the DHCP server hands out
LeaseAddress(k) == "10.0.0.5" \o SubSeq("0123456789", k + 1, k + 1)

\* line 231: time.Sleep(10s) while the container's dhclient asks for a lease;
\* a lease needs a free address and may still not arrive in time
WorkerAwaitDhcp(w) ==
  /\ wpc[w] = "sleep10"
  /\ \/ /\ free > 0
        /\ cont' = [cont EXCEPT ![w].ip = LeaseAddress(free)]
        /\ free' = free - 1
     \/ UNCHANGED <<cont, free>>
  /\ wpc' = [wpc EXCEPT ![w] = "inspect"]
  /\ UNCHANGED <<mainVars, ctxDone, errorChan, wgCount, reported, werr, wcid, past,
                 nFail, lateBegin, lateDone, nNoIP, detVars, entVars, cleanVars>>

\* the inspection returning the container without the test of its address
ContainerInspectAddressUnchecked(w) ==
  /\ wpc[w] = "inspect"
  /\ \/ /\ nFail < MaxFailures
        /\ \E e \in InspectErrors : Return(w, wcid[w], e)
        /\ nFail' = nFail + 1
     \/ /\ Return(w, wcid[w], Nil)
        /\ UNCHANGED nFail
  /\ CountLate(w)
  /\ UNCHANGED <<mainVars, ctxDone, errorChan, wgCount, reported, cont, past, free,
                 lateBegin, nNoIP, detVars, entVars, cleanVars>>

\* lines 232-242: cli.ContainerInspect and the test of the endpoint's address
ContainerInspect(w) ==
  /\ wpc[w] = "inspect"
  /\ \/ /\ nFail < MaxFailures
        /\ \E e \in InspectErrors : Return(w, wcid[w], e)
        /\ nFail' = nFail + 1
     \/ /\ IF cont[w].ip = ""
           THEN wpc' = [wpc EXCEPT ![w] = "remove"] /\ UNCHANGED <<werr, wcid>>
           ELSE Return(w, wcid[w], Nil)
        /\ UNCHANGED nFail
  /\ CountLate(w)
  /\ UNCHANGED <<mainVars, ctxDone, errorChan, wgCount, reported, cont, past, free,
                 lateBegin, nNoIP, detVars, entVars, cleanVars>>

\* the no-address branch returning its error without removing the container
ContainerRemoveSkipped(w) ==
  /\ wpc[w] = "remove"
  /\ Return(w, wcid[w], NoIPError)
  /\ nNoIP' = nNoIP + 1
  /\ CountLate(w)
  /\ UNCHANGED <<mainVars, ctxDone, errorChan, wgCount, reported, cont, past, free,
                 nFail, lateBegin, detVars, entVars, cleanVars>>

\* the no-address branch handing the error of a failed removal to the worker
ContainerRemoveErrorReturned(w) ==
  /\ wpc[w] = "remove"
  /\ \E ok \in BOOLEAN :
       /\ cont' = [cont EXCEPT ![w].removeIssued = TRUE,
                               ![w].st = IF ok THEN "removed" ELSE @]
       /\ Return(w, wcid[w],
                 IF ok THEN NoIPError
                 ELSE "Error response from daemon: removal already in progress")
  /\ nNoIP' = nNoIP + 1
  /\ CountLate(w)
  /\ UNCHANGED <<mainVars, ctxDone, errorChan, wgCount, reported, past, free, nFail,
                 lateBegin, detVars, entVars, cleanVars>>

\* lines 237-240: cli.ContainerRemove with Force, its error ignored, then
\* return resp.ID, fmt.Errorf("container did not receive an IP address")
ContainerRemove(w) ==
  /\ wpc[w] = "remove"
  /\ \E ok \in BOOLEAN :
       cont' = [cont EXCEPT ![w].removeIssued = TRUE,
                            ![w].st = IF ok THEN "removed" ELSE @]
  /\ Return(w, wcid[w], NoIPError)
  /\ nNoIP' = nNoIP + 1
  /\ CountLate(w)
  /\ UNCHANGED <<mainVars, ctxDone, errorChan, wgCount, reported, past, free, nFail,
                 lateBegin, detVars, entVars, cleanVars>>

\* lines 148-161: the worker looks at what launchContainer returned
WorkerHandleResult(w) ==
  /\ wpc[w] = "returned"
  /\ wpc' = [wpc EXCEPT ![w] =
               IF werr[w] # Nil
               THEN (IF isNoIPError(werr[w]) THEN "send" ELSE "sleep2")
               ELSE "sleep1"]
  /\ UNCHANGED <<mainVars, ctxDone, errorChan, wgCount, reported, werr, wcid, cont,
                 past, free, nFail, lateBegin, lateDone, nNoIP, detVars, entVars, cleanVars>>

\* line 152: errorChan <- err ; possible only while the buffer has room
WorkerSendError(w) ==
  /\ wpc[w] = "send"
  /\ Len(errorChan) < ErrorChanCap
  /\ errorChan' = Append(errorChan, werr[w])
  /\ wpc' = [wpc EXCEPT ![w] = "cancel"]
  /\ UNCHANGED <<mainVars, ctxDone, wgCount, reported, werr, wcid, cont, past,
                 free, nFail, lateBegin, lateDone, nNoIP, detVars, entVars, cleanVars>>

\* lines 153-154: cancel() ; return
WorkerCancel(w) ==
  /\ wpc[w] = "cancel"
  /\ ctxDone' = TRUE
  /\ WorkerReturn(w)
  /\ UNCHANGED <<mainVars, errorChan, reported, werr, wcid, cont, past, free,
                 nFail, lateBegin, lateDone, nNoIP, detVars, entVars, cleanVars>>

\* lines 157-158: time.Sleep(2s) ; continue
WorkerBackoff(w) ==
  /\ wpc[w] = "sleep2"
  /\ wpc' = [wpc EXCEPT ![w] = "select"]
  /\ UNCHANGED <<mainVars, ctxDone, errorChan, wgCount, reported, werr, wcid, cont,
                 past, free, nFail, lateBegin, lateDone, nNoIP, detVars, entVars, cleanVars>>

\* the pacing sleep followed by the next launch without the loop-top select
WorkerPaceSkipsCheck(w) ==
  /\ wpc[w] = "sleep1"
  /\ wpc' = [wpc EXCEPT ![w] = "default"]
  /\ UNCHANGED <<mainVars, ctxDone, errorChan, wgCount, reported, werr, wcid, cont,
                 past, free, nFail, lateBegin, lateDone, nNoIP, detVars, entVars, cleanVars>>

\* lines 160-161: time.Sleep(1s) after a launch, then the next pass
WorkerPace(w) ==
  /\ wpc[w] = "sleep1"
  /\ wpc' = [wpc EXCEPT ![w] = "select"]
  /\ UNCHANGED <<mainVars, ctxDone, errorChan, wgCount, reported, werr, wcid, cont,
                 past, free, nFail, lateBegin, lateDone, nNoIP, detVars, entVars, cleanVars>>

\* -------------------------------------------------------- the coordinator
\* lines 168-171: case err := <-errorChan: print, cancel()
MainSelectError ==
  /\ mainPc = "select"
  /\ errorChan # <<>>
  /\ errorChan' = Tail(errorChan)
  /\ reported' = reported + 1
  /\ ctxDone' = TRUE
  /\ mainPc' = "wait"
  /\ UNCHANGED <<dockerfileDirs, workers, exited, exitCode, failure, dockerfileList,
                 imageNames, spawned, wgCount, wpc, werr, wcid, cont, past,
                 free, nFail, lateBegin, lateDone, nNoIP, detVars, entVars, cleanVars>>

\* lines 168, 172: case <-ctx.Done():
MainSelectDone ==
  /\ mainPc = "select"
  /\ ctxDone
  /\ mainPc' = "wait"
  /\ UNCHANGED <<dockerfileDirs, workers, exited, exitCode, failure, dockerfileList,
                 imageNames, spawned, poolVars, detVars, entVars, cleanVars>>

\* "Finished launching containers." printed without the wait for the workers
MainWaitUnguarded ==
  /\ mainPc = "wait"
  /\ mainPc' = "finished"
  /\ UNCHANGED <<dockerfileDirs, workers, exited, exitCode, failure, dockerfileList,
                 imageNames, spawned, poolVars, detVars, entVars, cleanVars>>

\* wg.Wait() followed by return: the process ends with status 0
MainWaitThenReturn ==
  /\ mainPc = "wait"
  /\ wgCount = 0
  /\ Exit(0)
  /\ UNCHANGED <<dockerfileDirs, workers, failure, dockerfileList, imageNames, spawned,
                 poolVars, detVars, entVars, cleanVars>>

\* lines 175-178: wg.Wait() returns, "Finished launching containers." is
\* printed, and main stays in select {}
MainWait ==
  /\ mainPc = "wait"
  /\ wgCount = 0
  /\ mainPc' = "finished"
  /\ UNCHANGED <<dockerfileDirs, workers, exited, exitCode, failure, dockerfileList,
                 imageNames, spawned, poolVars, detVars, entVars, cleanVars>>

\* the main goroutine cannot go on by itself
MainBlocked ==
  \/ mainPc = "select" /\ errorChan = <<>> /\ ~ctxDone
  \/ mainPc = "wait" /\ wgCount > 0
  \/ mainPc = "finished"

\* a worker goroutine is gone, or asleep on the full channel
WorkerAsleep(w) ==
  \/ wpc[w] \in {"unspawned", "done"}
  \/ wpc[w] = "send" /\ Len(errorChan) >= ErrorChanCap

\* lines 168-178: with every goroutine asleep for good the Go runtime may end
\* the process ("all goroutines are asleep - deadlock!", status 2); it does
\* not while the Docker client keeps a connection polling
RuntimeFatal ==
  /\ MainBlocked
  /\ \A w \in WorkerIds : WorkerAsleep(w)
  /\ Exit(2)
  /\ UNCHANGED <<dockerfileDirs, workers, failure, dockerfileList, imageNames, spawned,
                 poolVars, detVars, entVars, cleanVars>>

\* ------------------------------------------------------------ specification
WorkerStep(w) ==
  \/ WorkerCheckCtx(w)
  \/ WorkerBegin(w)
  \/ ContainerCreate(w)
  \/ ContainerStart(w)
  \/ WorkerAwaitDhcp(w)
  \/ ContainerInspect(w)
  \/ ContainerRemove(w)
  \/ WorkerHandleResult(w)
  \/ WorkerSendError(w)
  \/ WorkerCancel(w)
  \/ WorkerBackoff(w)
  \/ WorkerPace(w)

MainStep ==
  \/ MainResolveDirs
  \/ MainSetupNetwork
  \/ MainDockerClient
  \/ MainBuildImage
  \/ MainStartWorkers
  \/ MainSpawn
  \/ MainSpawnDone
  \/ MainSelectError
  \/ MainSelectDone
  \/ MainWait

\* a step of the program itself, the runtime's abort aside
ProgramStep == MainStep \/ \E w \in WorkerIds : WorkerStep(w)

Next == ProgramStep \/ RuntimeFatal

Spec == Init /\ [][Next]_vars

\* ------------------------------------------------------- claims on the pool
\* the pool's context, channel and workers exist
PoolRunning == mainPc \in {"spawn", "select", "wait"}

\* launchContainer has handed its result to worker w
AfterReturn(w) == wpc[w] \in {"returned", "send", "cancel", "sleep1", "sleep2", "done"}

\* C1: with at least one worker the run terminates: while the coordinator has
\* not yet printed "Finished launching containers." the program can always
\* take a further step, so no interleaving leaves workers and coordinator
\* stuck before wg.Wait() returns.  (Every run of the model is finite: leases
\* and daemon errors are bounded, and a no-address outcome ends its worker.)
C1_RunTerminates == (workers >= 1 /\ PoolRunning) => ENABLED ProgramStep

\* C2: once the coordinator has left its select, and some attempt was
\* classified as exhaustion, "Stopping container launches due to error" has
\* been printed exactly once.
C2_ReportedExactlyOnce ==
  (mainPc \in {"wait", "finished"} /\ nNoIP >= 1) => reported = 1

\* C3 as stated: no worker begins a call of launchContainer once the context
\* is cancelled.
C3_NoBeginAfterCancel == \A w \in WorkerIds : lateBegin[w] = 0

\* C3 amended: a worker begins a call of launchContainer after the
\* cancellation at most once (the call whose loop-top check came before the
\* cancellation), and a worker standing at its loop-top check with the context
\* cancelled can only return.
C3_AtMostOneLateBegin ==
  /\ \A w \in WorkerIds : lateBegin[w] <= 1
  /\ \A w \in WorkerIds :
       (wpc[w] \in {"select", "sleep1", "sleep2", "returned"} /\ lateBegin[w] = 1)
         => ctxDone

C3_Witness ==
  \E w \in WorkerIds : lateBegin[w] = 1 /\ wpc[w] = "done" /\ mainPc = "finished"

\* C4: a worker that stands at "errorChan <- err" can complete the send: the
\* buffer has room, or the coordinator is still at its select and will receive.
C4_SendCompletes ==
  \A w \in WorkerIds :
    wpc[w] = "send" => (Len(errorChan) < ErrorChanCap \/ mainPc = "select")

\* C5: as long as no attempt has returned the no-address error, whatever the
\* number of create / start / inspect errors, the context is not cancelled,
\* nothing was sent on errorChan, nothing was reported, no worker has left its
\* loop and the coordinator is still before wg.Wait(); so a worker that comes
\* back from its backoff finds the context open and tries again.
C5_RetryableNeverTerminates ==
  nNoIP = 0 =>
    /\ ~ctxDone
    /\ errorChan = <<>>
    /\ reported = 0
    /\ \A w \in WorkerIds : wpc[w] \notin {"send", "cancel", "done"}
    /\ mainPc \notin {"wait", "finished"}

C5_Witness ==
  /\ nNoIP = 0
  /\ nFail >= 2
  /\ workers = 1
  /\ wpc[1] = "create"
  /\ mainPc = "select"

\* C6: whenever launchContainer has returned the no-address error to a worker,
\* the removal of that attempt's container has been issued; so every error on
\* errorChan, every report and the final "Finished" come after the removal.
C6_RemoveBeforeReport ==
  /\ \A w \in WorkerIds :
       (AfterReturn(w) /\ isNoIPError(werr[w])) => cont[w].removeIssued
  /\ Cardinality({w \in WorkerIds : cont[w].removeIssued}) >= nNoIP
  /\ Len(errorChan) + reported <= Cardinality({w \in WorkerIds : cont[w].removeIssued})

C6_Witness ==
  /\ mainPc = "finished"
  /\ reported = 1
  /\ \E w \in WorkerIds : isNoIPError(werr[w]) /\ cont[w].removeIssued

\* C7: with -workers below 1 the run ends with a configuration error before
\* any worker could be spawned; the coordinator never comes to wait at its
\* select for a signal that no worker can send.
C7_FailsFastWithoutWorkers ==
  workers < 1 => mainPc \notin {"select", "wait", "finished"}

NoWorkerActivity ==
  /\ spawned = 0
  /\ wgCount = 0
  /\ \A w \in WorkerIds : wpc[w] = "unspawned" /\ cont[w].st = "none"
  /\ past = EmptyBag

\* the directories of a listing whose names start with "ipocalypse", as paths
DiscoveredIn(entries) ==
  LET hits == SelectSeq(entries, LAMBDA e : e.isDir /\ HasPrefix(e.name, "ipocalypse"))
  IN [i \in 1..Len(hits) |-> "./" \o hits[i].name]

C17_FinishedAfterWorkersCancelOnce ==
  /\ [](mainPc = "finished" =>
          /\ wgCount = 0
          /\ spawned = workers
          /\ \A w \in 1..spawned : wpc[w] = "done")
  /\ [][ctxDone => ctxDone']_vars

C17_Witness ==
  /\ mainPc = "finished"
  /\ spawned = 2
  /\ reported = 1
  /\ ctxDone
  /\ \A w \in 1..2 : wpc[w] = "done"
  /\ nNoIP = 2

\* positions of a worker inside launchContainer
InAttempt == {"create", "start", "sleep10", "inspect", "remove"}

\* a step leaves worker w on its way through launchContainer, and after the
\* cancellation a worker at the pacing sleep or at the select only leaves
NotInterrupted(w) ==
  /\ (wpc[w] \in InAttempt) => (wpc'[w] \in InAttempt \cup {"returned"})
  /\ (wpc[w] = "remove" /\ wpc'[w] # "remove") => cont'[w].removeIssued
  /\ (ctxDone /\ wpc[w] = "sleep1") => (wpc'[w] \in {"sleep1", "select"})
  /\ (ctxDone /\ wpc[w] = "select") => (wpc'[w] \in {"select", "done"})

C19_OnlyExhaustionSendsAndCancels ==
  /\ \A w \in WorkerIds :
       /\ wpc[w] \in {"send", "cancel"} =>
            /\ werr[w] = NoIPError
            /\ cont[w].st \in {"running", "removed"}
            /\ cont[w].ip = ""
       /\ wpc[w] = "sleep2" =>
            /\ werr[w] \in CreateErrors \cup StartErrors \cup InspectErrors
            /\ (werr[w] \in CreateErrors => cont[w].st = "none")
            /\ (werr[w] \in StartErrors => cont[w].st = "created")
            /\ (werr[w] \in InspectErrors => cont[w].st = "running")
       /\ wpc[w] = "sleep1" =>
            /\ werr[w] = Nil
            /\ cont[w].st = "running"
            /\ cont[w].ip # ""
       /\ (wpc[w] = "returned" /\ werr[w] = NoIPError) =>
            (cont[w].st \in {"running", "removed"} /\ cont[w].ip = "")
  /\ \A i \in 1..Len(errorChan) : errorChan[i] = NoIPError
  /\ Len(errorChan) + reported <= nNoIP
  /\ ctxDone => nNoIP >= 1

C19_Witness ==
  \E w \in WorkerIds, v \in WorkerIds :
    /\ wpc[w] = "send"
    /\ cont[w].st = "removed"
    /\ wpc[v] = "sleep2"
    /\ werr[v] \in InspectErrors

\* the order of the steps of main
MainOrder ==
  { <<"dirs", "setup">>, <<"setup", "client">>, <<"client", "build">>,
    <<"build", "spawn">>, <<"spawn", "select">>, <<"select", "wait">>,
    <<"wait", "finished">> }

\* a step of main keeps to the order, builds only in the build loop and
\* leaves the loop for the workers only with every image built
MainInOrder ==
  /\ (mainPc' # mainPc) =>
       (<<mainPc, mainPc'>> \in MainOrder \/ mainPc' = "exited")
  /\ (imageNames' # imageNames) => (mainPc = "build" /\ mainPc' = "build")
  /\ (mainPc = "build" /\ mainPc' = "spawn") =>
       Len(imageNames) = Len(dockerfileList)

\* C20: main goes through directories, network setup, builds and worker
\* start in this order; a worker exists, and a container is created, only
\* after the network setup succeeded and every directory's image is built;
\* a failure of an earlier step ends the run without any attempt.
C20_WorkersAfterSetupAndBuilds ==
  /\ []((\E w \in WorkerIds : wpc[w] # "unspawned" \/ cont[w].st # "none") =>
          /\ failure = ""
          /\ dockerfileList # <<>>
          /\ Len(imageNames) = Len(dockerfileList)
          /\ mainPc \in {"spawn", "select", "wait", "finished", "exited"})
  /\ [](failure # "" => NoWorkerActivity)
  /\ [][MainInOrder]_vars

C20_Witness ==
  /\ \E w \in WorkerIds : wpc[w] = "create"
  /\ Len(dockerfileList) = 2
  /\ Len(imageNames) = 2
  /\ mainPc = "spawn"

\* the removal of worker w's container was issued and failed
RemoveFailed(w) == cont[w].removeIssued /\ cont[w].st # "removed"

C23_FailedAttemptLeavesNoContainer ==
  /\ \A w \in WorkerIds :
       (AfterReturn(w) /\ werr[w] # Nil /\ cont[w].st # "none") => cont[w].st = "removed"
  /\ \A c \in BagToSet(past) : c.ip = "" => c.st = "removed"

\* ------------------------------------------------- detection: CIDR parsing
IsDigit(c) == Len(c) = 1 /\ Contains("0123456789", c)

AllDigits(s) == Len(s) > 0 /\ \A i \in 1..Len(s) : IsDigit(Char(s, i))

\* the number a string of decimal digits denotes
RECURSIVE Atoi(_)
Atoi(s) ==
  IF s = "" THEN 0
  ELSE 10 * Atoi(SubSeq(s, 1, Len(s) - 1)) + (Index("0123456789", Char(s, Len(s))) - 1)

\* the decimal digits of a natural number
RECURSIVE Itoa(_)
Itoa(n) ==
  IF n < 10 THEN Char("0123456789", n + 1)
  ELSE Itoa(n \div 10) \o Char("0123456789", (n % 10) + 1)

\* one element of a dotted quad: 1 to 3 digits, no leading zero, at most 255
ValidOctet(s) ==
  /\ AllDigits(s)
  /\ Len(s) <= 3
  /\ (Len(s) > 1 => Char(s, 1) # "0")
  /\ Atoi(s) <= 255

RECURSIVE Pow2(_)
Pow2(n) == IF n = 0 THEN 1 ELSE 2 * Pow2(n - 1)

\* the octet as it is, whatever the mask
MaskOctetUnmasked(octet, k, bits) == octet

\* the k-th octet (1..4) of an address under a mask of the given length
MaskOctet(octet, k, bits) ==
  LET keep == IF bits >= 8 * k THEN 8
              ELSE IF bits <= 8 * (k - 1) THEN 0
              ELSE bits - 8 * (k - 1)
      unit == Pow2(8 - keep)
  IN (octet \div unit) * unit

\* net.ParseCIDR for IPv4 text "a.b.c.d/n": the address, the prefix length
\* and the network address (the address under the mask)
ParseCIDR(s) ==
  LET i == Index(s, "/")
      addr == SubSeq(s, 1, i - 1)
      mask == SubSeq(s, i + 1, Len(s))
      parts == Split(addr, ".")
      bad == [ok |-> FALSE, ip |-> <<>>, bits |-> 0, net |-> <<>>]
  IN IF i = 0 THEN bad
     ELSE IF ~(Len(parts) = 4 /\ \A k \in 1..4 : ValidOctet(parts[k])) THEN bad
     ELSE IF ~(AllDigits(mask) /\ Len(mask) <= 2 /\ Atoi(mask) <= 32) THEN bad
     ELSE LET ip == [k \in 1..4 |-> Atoi(parts[k])]
              bits == Atoi(mask)
          IN [ok |-> TRUE, ip |-> ip, bits |-> bits,
              net |-> [k \in 1..4 |-> MaskOctet(ip[k], k, bits)]]

\* (*net.IPNet).String(): dotted quad, "/", prefix length
IPNetString(ip, bits) ==
  Itoa(ip[1]) \o "." \o Itoa(ip[2]) \o "." \o Itoa(ip[3]) \o "." \o Itoa(ip[4])
    \o "/" \o Itoa(bits)

\* -------------------------------------------------- detection: the host
RouteEth0  == "default via 10.0.0.1 dev eth0 proto dhcp metric 100 "
RouteWlan0 == "default via 192.168.1.1 dev wlan0 proto dhcp metric 600 "
RoutePpp0  == "default dev ppp0 scope link "
RoutePlain == "default via 10.0.0.1 dev eth0"
RouteLines == {RouteEth0, RouteWlan0, RoutePpp0, RoutePlain}

\* outputs of "ip route show default" with n entries, one per line
RECURSIVE RouteTables(_)
RouteTables(n) ==
  IF n = 0 THEN {""}
  ELSE {l \o "\n" \o t : l \in RouteLines, t \in RouteTables(n - 1)}

RouteOutputs == UNION {RouteTables(n) : n \in 0..MaxRoutes}

LinkLo      == "1: lo: <LOOPBACK,UP,LOWER_UP> mtu 65536 state UNKNOWN qlen 1000\n"
LinkEth0    == "2: eth0: <BROADCAST,MULTICAST,UP,LOWER_UP> mtu 1500 state UP \n"
LinkWlan0   == "3: wlan0: <BROADCAST,MULTICAST,UP,LOWER_UP> mtu 1500 state UP \n"
LinkDocker0 == "4: docker0: <NO-CARRIER,BROADCAST,MULTICAST,UP> mtu 1500 \n"
LinkVeth    == "7: eth1@if6: <BROADCAST,MULTICAST,UP,LOWER_UP> mtu 1500 \n"

\* outputs of "ip -o link show up"
LinkOutputs ==
  { "", LinkLo \o LinkEth0, LinkDocker0 \o LinkWlan0 \o LinkEth0, LinkDocker0,
    LinkVeth }

AddrEth0  == "2: eth0    inet 10.0.0.42/24 brd 10.0.0.255 scope global eth0\n"
AddrWlan0 == "3: wlan0    inet 192.168.1.7/16 brd 192.168.255.255 scope global wlan0\n"
AddrLo    == "1: lo    inet 127.0.0.1/8 scope host lo\n"

\* outputs of "ip -o -f inet addr show <iface>" per existing interface; the
\* command fails for an interface the host does not have
AddrTables ==
  { [eth0 |-> AddrEth0, wlan0 |-> AddrWlan0, lo |-> AddrLo],
    [eth0 |-> "", wlan0 |-> AddrWlan0, lo |-> AddrLo],
    [lo |-> AddrLo] }

Hosts ==
  { [routeOk |-> ro, routeOut |-> rt, linkOk |-> lo, linkOut |-> lk, addrs |-> ad] :
      ro \in BOOLEAN, rt \in RouteOutputs, lo \in BOOLEAN, lk \in LinkOutputs,
      ad \in AddrTables }

\* a command that failed printed nothing
PlausibleHost(h) ==
  /\ (~h.routeOk => h.routeOut = "")
  /\ (~h.linkOk => h.linkOut = "")

\* ------------------------------------------------ detection: the functions
\* the loop over strings.Fields(routeLine): every "dev" / "via" that has a
\* successor assigns it, so the last one of each stands at the end
RECURSIVE ScanRoute(_, _, _, _)
ScanRoute(parts, i, iface, gateway) ==
  IF i > Len(parts) THEN [iface |-> iface, gateway |-> gateway]
  ELSE ScanRoute(parts, i + 1,
                 IF parts[i] = "dev" /\ i < Len(parts) THEN parts[i + 1] ELSE iface,
                 IF parts[i] = "via" /\ i < Len(parts) THEN parts[i + 1] ELSE gateway)

\* getInterfaceIP, inner loop: the first field of a line that contains "/"
RECURSIVE FirstSlashField(_)
FirstSlashField(fields) ==
  IF fields = <<>> THEN ""
  ELSE IF Contains(Head(fields), "/") THEN Head(fields)
       ELSE FirstSlashField(Tail(fields))

\* getInterfaceIP, outer loop over the scanned lines
RECURSIVE FirstSlashFieldOfLines(_)
FirstSlashFieldOfLines(lines) ==
  IF lines = <<>> THEN ""
  ELSE LET f == FirstSlashField(Fields(Head(lines)))
       IN IF f # "" THEN f ELSE FirstSlashFieldOfLines(Tail(lines))

\* getInterfaceIP(iface) on host h: [ip, err]
getInterfaceIP(h, iface) ==
  IF iface \notin DOMAIN h.addrs
  THEN [ip |-> "", err |-> "exit status 1"]
  ELSE LET f == FirstSlashFieldOfLines(Lines(h.addrs[iface]))
       IN IF f # "" THEN [ip |-> f, err |-> Nil]
          ELSE [ip |-> "", err |-> "no IPv4 address found on interface " \o iface]

\* detectFallbackInterface, the loop over the lines of "ip -o link show up"
RECURSIVE FallbackScan(_)
FallbackScan(lines) ==
  IF lines = <<>> THEN "eth0"
  ELSE LET line == Head(lines)
           parts == Split(line, ":")
           name == TrimSpace(parts[2])
           at == Index(name, "@")
       IN IF (Contains(line, "en") \/ Contains(line, "eth")) /\ Len(parts) >= 2
          THEN (IF at # 0 THEN SubSeq(name, 1, at - 1) ELSE name)
          ELSE FallbackScan(Tail(lines))

\* detectFallbackInterface on host h: [iface, err]
detectFallbackInterface(h) ==
  IF ~h.linkOk THEN [iface |-> "", err |-> "exit status 1"]
  ELSE [iface |-> FallbackScan(Lines(h.linkOut)), err |-> Nil]

\* what detectNetworkConfig returns on an error
DetectFailed(msg) ==
  [iface |-> "", ipWithCIDR |-> "", subnet |-> "", gateway |-> "", err |-> msg]

\* ------------------------------------------- earlier main: the daemon side
\* the -network flag's default
NetworkName == "ipocalypse_net"

\* what the daemon may already have when the program starts
NetworkKept == [id |-> "4f1c", name |-> "ipocalypse_net", subnet |-> "172.16.0.0/24",
                gateway |-> "172.16.0.1", parent |-> "enp3s0"]
NetworkOld  == [id |-> "9b27", name |-> "ipocalypse_net_old", subnet |-> "172.30.0.0/16",
                gateway |-> "172.30.0.1", parent |-> "eth1"]

DaemonNetworks == { {}, {NetworkKept}, {NetworkOld}, {NetworkKept, NetworkOld} }

\* the id the daemon gives to the network it creates
NewNetworkID == "c3d8"

\* cli.NetworkList with the filter name=networkName: the daemon answers with
\* every network whose name contains the filter's value
NetworkList(nets, name) == {n \in nets : Contains(n.name, name)}

\* ensureMacvlanNetwork, lines 347-383: what it returns and what the daemon
\* has afterwards, for the daemon's answers listOk and createOk and for the
\* element "first" the daemon puts at the head of a non-empty list
ensureMacvlanNetwork(nets, networkName, subnet, gateway, parent, listOk, first, createOk) ==
  IF ~listOk
  THEN [id |-> "", err |-> "Cannot connect to the Docker daemon",
        networks |-> nets, created |-> FALSE]
  ELSE IF NetworkList(nets, networkName) # {}
       THEN [id |-> first.id, err |-> Nil, networks |-> nets, created |-> FALSE]
       ELSE IF ~createOk
            THEN [id |-> "", err |-> "Error response from daemon: invalid pool request",
                  networks |-> nets, created |-> FALSE]
            ELSE [id |-> NewNetworkID, err |-> Nil, created |-> TRUE,
                  networks |-> nets \cup {[id |-> NewNetworkID, name |-> networkName,
                                           subnet |-> subnet, gateway |-> gateway,
                                           parent |-> parent]}]

\* the networks the daemon may put first in its answer
FirstListed(nets, name) ==
  IF NetworkList(nets, name) = {} THEN {NetworkKept} ELSE NetworkList(nets, name)

\* fmt.Sprintf("ipocalypse_%d:latest", i) for the i-th directory, from 0
OldImageName(i) == "ipocalypse_" \o Itoa(i) \o ":latest"

\* ------------------------------------------------ detection: the machine
\* the earlier main program at its call of detectNetworkConfig
DetectInit ==
  /\ dpc = "route"
  /\ host \in {h \in Hosts : PlausibleHost(h)}
  /\ det = [iface |-> "", ipWithCIDR |-> "", subnet |-> "", gateway |-> "",
            err |-> Nil]
  /\ net = [parent |-> "", subnet |-> "", gateway |-> "", hostIPWithCIDR |-> "",
            networkID |-> ""]
  /\ networks \in DaemonNetworks
  /\ dockerfileDirs = "ipocalypse_basic_image"
  /\ workers = 0
  /\ mainPc = "detect"
  /\ exited = FALSE
  /\ exitCode = 0
  /\ failure = ""
  /\ dockerfileList = Split(dockerfileDirs, ",")
  /\ imageNames = <<>>
  /\ spawned = 0
  /\ PoolIdle
  /\ EntIdle
  /\ CleanIdle

\* lines 434-459: "ip route show default", then the parse of a non-empty output
DetectRoute ==
  /\ dpc = "route"
  /\ IF ~host.routeOk
     THEN /\ det' = DetectFailed("failed to run 'ip route show default'")
          /\ dpc' = "done"
     ELSE LET routeLine == TrimSpace(host.routeOut)
              r == ScanRoute(Fields(routeLine), 1, "", "")
          IN IF routeLine = ""
             THEN dpc' = "fallback" /\ UNCHANGED det
             ELSE IF r.iface = "" \/ r.gateway = ""
                  THEN /\ det' = DetectFailed("could not parse default route")
                       /\ dpc' = "done"
                  ELSE /\ det' = [det EXCEPT !.iface = r.iface, !.gateway = r.gateway]
                       /\ dpc' = "addr"
  /\ UNCHANGED <<host, net, networks, mainVars, poolVars, entVars, cleanVars>>

\* lines 439-444: no default route, detectFallbackInterface picks the interface
DetectFallback ==
  /\ dpc = "fallback"
  /\ LET f == detectFallbackInterface(host)
     IN IF f.err # Nil
        THEN /\ det' = DetectFailed("no default route found and fallback detection failed")
             /\ dpc' = "done"
        ELSE /\ det' = [det EXCEPT !.iface = f.iface]
             /\ dpc' = "addr"
  /\ UNCHANGED <<host, net, networks, mainVars, poolVars, entVars, cleanVars>>

\* lines 461-465: getInterfaceIP(iface)
DetectInterfaceIP ==
  /\ dpc = "addr"
  /\ LET r == getInterfaceIP(host, det.iface)
     IN IF r.err # Nil
        THEN /\ det' = DetectFailed("failed to get IP address for interface")
             /\ dpc' = "done"
        ELSE /\ det' = [det EXCEPT !.ipWithCIDR = r.ip]
             /\ dpc' = "cidr"
  /\ UNCHANGED <<host, net, networks, mainVars, poolVars, entVars, cleanVars>>

\* lines 467-473: net.ParseCIDR, subnet = ipNet.String(), return without error
DetectSubnet ==
  /\ dpc = "cidr"
  /\ LET c == ParseCIDR(det.ipWithCIDR)
     IN IF ~c.ok
        THEN det' = DetectFailed("failed to parse CIDR")
        ELSE det' = [det EXCEPT !.subnet = IPNetString(c.net, c.bits)]
  /\ dpc' = "done"
  /\ UNCHANGED <<host, net, networks, mainVars, poolVars, entVars, cleanVars>>

\* -------------------------------------- earlier main: after the detection
\* the caller going on with whatever detectNetworkConfig returned
OldMainAfterDetectErrIgnored ==
  /\ mainPc = "detect"
  /\ dpc = "done"
  /\ net' = [parent |-> det.iface, subnet |-> det.subnet,
             gateway |-> det.gateway, hostIPWithCIDR |-> det.ipWithCIDR,
             networkID |-> ""]
  /\ mainPc' = "oclient"
  /\ UNCHANGED <<exited, exitCode, failure>>
  /\ UNCHANGED <<dockerfileDirs, workers, dockerfileList, imageNames, spawned,
                 poolVars, entVars, cleanVars, dpc, host, det, networks>>

\* lines 199-215: detectNetworkConfig has returned; an error ends the run,
\* otherwise the detected values override the flags
OldMainAfterDetect ==
  /\ mainPc = "detect"
  /\ dpc = "done"
  /\ IF det.err # Nil
     THEN Fail("detect") /\ UNCHANGED net
     ELSE /\ net' = [parent |-> det.iface, subnet |-> det.subnet,
                     gateway |-> det.gateway, hostIPWithCIDR |-> det.ipWithCIDR,
             networkID |-> ""]
          /\ mainPc' = "oclient"
          /\ UNCHANGED <<exited, exitCode, failure>>
  /\ UNCHANGED <<dockerfileDirs, workers, dockerfileList, imageNames, spawned,
                 poolVars, entVars, cleanVars, dpc, host, det, networks>>

\* lines 231-236: client.NewClientWithOpts
OldMainDockerClient ==
  /\ mainPc = "oclient"
  /\ \E ok \in BOOLEAN :
       IF ok THEN mainPc' = "obuild" /\ UNCHANGED <<exited, exitCode, failure>>
             ELSE Fail("client")
  /\ UNCHANGED <<dockerfileDirs, workers, dockerfileList, imageNames, spawned,
                 poolVars, detVars, entVars, cleanVars>>

\* lines 238-248: one pass of the build loop
OldMainBuildImage ==
  /\ mainPc = "obuild"
  /\ Len(imageNames) < Len(dockerfileList)
  /\ \E ok \in BOOLEAN :
       IF ok
       THEN /\ imageNames' = Append(imageNames, OldImageName(Len(imageNames)))
            /\ UNCHANGED <<mainPc, exited, exitCode, failure>>
       ELSE /\ Fail("build")
            /\ UNCHANGED imageNames
  /\ UNCHANGED <<dockerfileDirs, workers, dockerfileList, spawned, poolVars, detVars, entVars, cleanVars>>

\* lines 250-256 with ensureMacvlanNetwork, lines 345-383: the network found
\* by name is taken as it is, otherwise one is created from subnet, gateway
\* and parent; an error of the list or of the creation ends the run.  main
\* drops the returned id ("_, err ="); net.networkID keeps it for inspection
OldMainEnsureNetwork ==
  /\ mainPc = "obuild"
  /\ Len(imageNames) = Len(dockerfileList)
  /\ \E listOk \in BOOLEAN, createOk \in BOOLEAN,
        first \in FirstListed(networks, NetworkName) :
       LET r == ensureMacvlanNetwork(networks, NetworkName, net.subnet, net.gateway,
                                     net.parent, listOk, first, createOk)
       IN /\ networks' = r.networks
          /\ net' = [net EXCEPT !.networkID = r.id]
          /\ IF r.err # Nil
             THEN Fail("network")
             ELSE mainPc' = "ointernet" /\ UNCHANGED <<exited, exitCode, failure>>
  /\ UNCHANGED <<dockerfileDirs, workers, dockerfileList, imageNames, spawned,
                 poolVars, entVars, cleanVars, dpc, host, det>>

\* lines 258-266: with -internet, setupHostMacvlanInterface; its error ends
\* the run; then the workers are started as in the later main
OldMainHostInterface ==
  /\ mainPc = "ointernet"
  /\ \E internetAccess \in BOOLEAN, ok \in BOOLEAN :
       IF internetAccess /\ ~ok
       THEN Fail("internet")
       ELSE mainPc' = "oworkers" /\ UNCHANGED <<exited, exitCode, failure>>
  /\ UNCHANGED <<dockerfileDirs, workers, dockerfileList, imageNames, spawned,
                 poolVars, detVars, entVars, cleanVars>>

OldMainStep ==
  \/ OldMainAfterDetect
  \/ OldMainDockerClient
  \/ OldMainBuildImage
  \/ OldMainEnsureNetwork
  \/ OldMainHostInterface

DetectNext ==
  \/ DetectRoute
  \/ DetectFallback
  \/ DetectInterfaceIP
  \/ DetectSubnet
  \/ OldMainStep

DetectSpec == DetectInit /\ [][DetectNext]_vars

\* ---------------------------------------------------- claims on detection
\* detectNetworkConfig has returned without an error
DetectSucceeded == dpc = "done" /\ det.err = Nil

\* the token that follows the first occurrence of key among the fields, ""
\* when there is none
RECURSIVE TokenAfter(_, _)
TokenAfter(fields, key) ==
  IF Len(fields) < 2 THEN ""
  ELSE IF Head(fields) = key THEN fields[2]
       ELSE TokenAfter(Tail(fields), key)

\* the fields of the first entry of the default-route table
FirstRouteEntry == Fields(Lines(TrimSpace(host.routeOut))[1])

\* C9: when the route table has default routes and detection succeeds, the
\* interface and the gateway returned are those of the first route entry.
C9_UsesFirstRoute ==
  (DetectSucceeded /\ TrimSpace(host.routeOut) # "") =>
    /\ det.iface = TokenAfter(FirstRouteEntry, "dev")
    /\ det.gateway = TokenAfter(FirstRouteEntry, "via")

\* the address of ipWithCIDR, under the mask of subnet, is the subnet's address
InSubnet(ipWithCIDR, subnet) ==
  LET a == ParseCIDR(ipWithCIDR)
      n == ParseCIDR(subnet)
  IN /\ a.ok
     /\ n.ok
     /\ \A k \in 1..4 : MaskOctet(a.ip[k], k, n.bits) = n.ip[k]

\* C10: whenever detection succeeds, interface, host address, subnet and
\* gateway are all non-empty and the host address lies within the subnet, on
\* the default-route path and on the fallback path alike.
C10_SuccessMeansComplete ==
  DetectSucceeded =>
    /\ det.iface # ""
    /\ det.ipWithCIDR # ""
    /\ det.subnet # ""
    /\ det.gateway # ""
    /\ InSubnet(det.ipWithCIDR, det.subnet)

\* the host has no default route: detection takes the fallback path
NoDefaultRoute == host.routeOk /\ TrimSpace(host.routeOut) = ""

\* the interface name a line of "ip -o link show" is about: its second field
\* without the closing colon and without a peer suffix "@..."
LinkName(line) ==
  LET f == Fields(line)
      raw == IF Len(f) >= 2 THEN f[2] ELSE ""
      at == Index(raw, "@")
      colon == Index(raw, ":")
      cut == IF at # 0 THEN at ELSE IF colon # 0 THEN colon ELSE Len(raw) + 1
  IN SubSeq(raw, 1, cut - 1)

\* a name of the wired kind: en*, eth* (eno* and ens* are en*)
WiredName(name) == HasPrefix(name, "en") \/ HasPrefix(name, "eth")

\* the first interface with a wired name among the lines, "eth0" without one
RECURSIVE FirstWired(_)
FirstWired(lines) ==
  IF lines = <<>> THEN "eth0"
  ELSE IF WiredName(LinkName(Head(lines))) THEN LinkName(Head(lines))
       ELSE FirstWired(Tail(lines))

\* C11: without a default route the interface chosen by the fallback is the
\* first up interface whose name is of the kind en*, eth*, eno*, ens*, and the
\* literal "eth0" when no up interface has such a name; an interface with
\* another name (lo, docker0, wlan0) is never chosen.
C11_FallbackChoosesWiredName ==
  (NoDefaultRoute /\ (dpc \in {"addr", "cidr"} \/ DetectSucceeded)) =>
    /\ det.iface = FirstWired(Lines(host.linkOut))
    /\ WiredName(det.iface)

\* the octets of subnet are those of the address with the host bits cleared
MaskedBy(addr, subnet, bits) ==
  \A k \in 1..4 :
    LET hostBits == IF bits >= 8 * k THEN 0
                    ELSE IF bits <= 8 * (k - 1) THEN 8
                    ELSE 8 * k - bits
    IN /\ subnet[k] <= addr[k]
       /\ subnet[k] % Pow2(hostBits) = 0
       /\ addr[k] - subnet[k] < Pow2(hostBits)

\* the route table has exactly one default route
SingleRoute == Len(Lines(TrimSpace(host.routeOut))) = 1 /\ TrimSpace(host.routeOut) # ""

\* C12: with a single default route a successful detection returns the token
\* after "dev" as interface, the token after "via" as gateway, the address of
\* that interface, and as subnet this address masked by its prefix length with
\* the same prefix length; for "default via 10.0.0.1 dev eth0" and
\* 10.0.0.42/24 it returns eth0, 10.0.0.42/24, 10.0.0.0/24, 10.0.0.1.
C12_DetectsTopology ==
  (DetectSucceeded /\ SingleRoute) =>
    LET a == ParseCIDR(det.ipWithCIDR)
        n == ParseCIDR(det.subnet)
    IN /\ det.iface = TokenAfter(FirstRouteEntry, "dev")
       /\ det.gateway = TokenAfter(FirstRouteEntry, "via")
       /\ Contains(host.addrs[det.iface], " " \o det.ipWithCIDR \o " ")
       /\ a.ok /\ n.ok
       /\ n.bits = a.bits
       /\ MaskedBy(a.ip, n.ip, a.bits)
       /\ (host.routeOut = RoutePlain \o "\n" /\ host.addrs.eth0 = AddrEth0) =>
            /\ det.iface = "eth0"
            /\ det.ipWithCIDR = "10.0.0.42/24"
            /\ det.subnet = "10.0.0.0/24"
            /\ det.gateway = "10.0.0.1"

C12_Witness ==
  /\ DetectSucceeded
  /\ host.routeOut = RoutePlain \o "\n"
  /\ host.addrs.eth0 = AddrEth0
  /\ det.subnet = "10.0.0.0/24"

\* the first entry of the route table has no "dev" token or no "via" token
FirstRouteIncomplete ==
  /\ host.routeOk
  /\ TrimSpace(host.routeOut) # ""
  /\ \/ TokenAfter(FirstRouteEntry, "dev") = ""
     \/ TokenAfter(FirstRouteEntry, "via") = ""

\* C22: when the default route's entry lacks its "dev" token or its "via"
\* token, detection ends with the parse error: it does not go to the
\* fallback, does not go on to the address, and returns no topology.
C22_IncompleteRouteIsParseError ==
  (FirstRouteIncomplete /\ dpc # "route") =>
    /\ dpc = "done"
    /\ det.err = "could not parse default route"
    /\ det.iface = "" /\ det.gateway = ""

\* C13: when a step of the detection fails (the route query fails, the only
\* default route has no "dev" or no "via", the chosen interface has no IPv4
\* address), detectNetworkConfig returns an error with every topology field
\* empty, and the caller exits with code 1: no image is built, no network is
\* created, no worker is started.
C13_DetectionFailureIsFatal ==
  /\ (dpc = "done" /\ det.err # Nil) =>
       /\ det.iface = "" /\ det.ipWithCIDR = "" /\ det.subnet = "" /\ det.gateway = ""
       /\ mainPc \in {"detect", "exited"}
       /\ exited => (exitCode = 1 /\ failure = "detect")
       /\ imageNames = <<>>
       /\ networks \in DaemonNetworks
       /\ spawned = 0 /\ wgCount = 0
  /\ DetectSucceeded =>
       /\ host.routeOk
       /\ det.ipWithCIDR # ""
       /\ SingleRoute => /\ TokenAfter(FirstRouteEntry, "dev") # ""
                          /\ TokenAfter(FirstRouteEntry, "via") # ""

C13_Witness ==
  /\ exited /\ exitCode = 1 /\ failure = "detect"
  /\ host.routeOut = RoutePlain \o "\n"
  /\ det.err = "failed to get IP address for interface"

\* C14: when the fallback path ends with an unusable topology (an empty
\* gateway or an empty address), the caller treats it as fatal: it goes no
\* further, creates no network and starts no worker.
C14_UnusableFallbackIsFatal ==
  (NoDefaultRoute /\ dpc = "done" /\ (det.gateway = "" \/ det.ipWithCIDR = "")) =>
    /\ mainPc \in {"detect", "exited"}
    /\ networks \in DaemonNetworks

\* ensureMacvlanNetwork called on nets, and called again on what it left
CalledTwice(nets, listOk, first, createOk, again) ==
  LET r1 == ensureMacvlanNetwork(nets, NetworkName, net.subnet, net.gateway,
                                 net.parent, listOk, first, createOk)
  IN <<r1, ensureMacvlanNetwork(r1.networks, NetworkName, net.subnet, net.gateway,
                                net.parent, TRUE, again, createOk)>>

\* the networks of the daemon that have exactly the given name
Named(nets, name) == {n \in nets : n.name = name}

\* C26: ensureMacvlanNetwork is idempotent.  Once it has returned without
\* error, the id it returned is the id of the network that has the given name;
\* with such a network present it creates nothing, and a second call after a
\* first one creates nothing and leaves the daemon's networks as they are;
\* an error of the list or of the creation ends the run with code 1 before
\* any worker exists.
C26_EnsureNetworkIdempotent ==
  /\ (mainPc \in {"ointernet", "oworkers"} /\ Named(networks, NetworkName) # {}) =>
       \E n \in Named(networks, NetworkName) : net.networkID = n.id
  /\ \A listOk \in BOOLEAN, createOk \in BOOLEAN,
        first \in FirstListed(networks, NetworkName) :
       LET r == ensureMacvlanNetwork(networks, NetworkName, net.subnet, net.gateway,
                                     net.parent, listOk, first, createOk)
       IN /\ Named(networks, NetworkName) # {} => (~r.created /\ r.networks = networks)
          /\ \A again \in FirstListed(r.networks, NetworkName) :
               LET rr == CalledTwice(networks, listOk, first, createOk, again)[2]
               IN r.err = Nil => (~rr.created /\ rr.networks = r.networks /\ rr.err = Nil)
          /\ (~listOk \/ (NetworkList(networks, NetworkName) = {} /\ ~createOk)) =>
               (r.err # Nil /\ r.id = "" /\ r.networks = networks)
  /\ failure = "network" => (exited /\ exitCode = 1 /\ NoWorkerActivity)

\* --------------------------------------------- entrypoint.sh: the container
\* max_attempts=3
max_attempts == 3

ContainerLo      == "1: lo: <LOOPBACK,UP,LOWER_UP> mtu 65536 state UNKNOWN\n"
ContainerEthPeer == "5: eth0@if6: <BROADCAST,MULTICAST,UP,LOWER_UP> mtu 1500 state UP\n"
ContainerEth     == "2: eth0: <BROADCAST,MULTICAST> mtu 1500 state DOWN\n"
ContainerMacvlan == "3: macvlan0@if2: <BROADCAST,MULTICAST,UP> mtu 1500 state UP\n"
ContainerWlan    == "4: wlan0: <BROADCAST,MULTICAST,UP> mtu 1500 state UP\n"

\* outputs of "ip -o link show" inside a container
ContainerLinks ==
  { ContainerLo,
    ContainerLo \o ContainerEthPeer,
    ContainerLo \o ContainerEth,
    ContainerLo \o ContainerMacvlan \o ContainerEthPeer,
    ContainerLo \o ContainerWlan }

\* awk -F': ': the second field of a line
AwkSecondField(line) ==
  LET c == Index(line, ": ")
      rest == SubSeq(line, c + 2, Len(line))
      d == Index(rest, ": ")
  IN IF c = 0 THEN ""
     ELSE IF d = 0 THEN rest ELSE SubSeq(rest, 1, d - 1)

\* /^[0-9]+: (eth|macvlan)/ : the position after the stem, 0 without a match
AfterStem(line) ==
  LET c == Index(line, ": ")
      rest == SubSeq(line, c + 2, Len(line))
  IN IF c = 0 \/ ~AllDigits(SubSeq(line, 1, c - 1)) THEN 0
     ELSE IF HasPrefix(rest, "macvlan") THEN c + 2 + 7
     ELSE IF HasPrefix(rest, "eth") THEN c + 2 + 3
     ELSE 0

\* the length of the run of digits of line that starts at position p
DigitRun(line, p) ==
  MinOf({j \in p..(Len(line) + 1) : j = Len(line) + 1 \/ ~IsDigit(Char(line, j))}) - p

\* /^[0-9]+: (eth|macvlan)[0-9]*@/
MatchesPeerPattern(line) ==
  LET p == AfterStem(line)
  IN p # 0 /\ Char(line, p + DigitRun(line, p)) = "@"

\* /^[0-9]+: (eth|macvlan)[0-9]*[^@]/ : after some of the digits comes a
\* character other than "@"
MatchesPlainPattern(line) ==
  LET p == AfterStem(line)
  IN p # 0 /\ \E n \in 0..DigitRun(line, p) :
                p + n <= Len(line) /\ Char(line, p + n) # "@"

\* gsub(/@.*/, "", $2)
StripPeer(name) ==
  LET at == Index(name, "@")
  IN IF at = 0 THEN name ELSE SubSeq(name, 1, at - 1)

\* the first awk program: the first line with a peer suffix prints its name
RECURSIVE AwkPeer(_)
AwkPeer(lines) ==
  IF lines = <<>> THEN ""
  ELSE IF MatchesPeerPattern(Head(lines)) THEN StripPeer(AwkSecondField(Head(lines)))
       ELSE AwkPeer(Tail(lines))

\* the second awk program: the first matching line prints its second field
RECURSIVE AwkPlain(_)
AwkPlain(lines) ==
  IF lines = <<>> THEN ""
  ELSE IF MatchesPlainPattern(Head(lines)) THEN AwkSecondField(Head(lines))
       ELSE AwkPlain(Tail(lines))

\* lines 23-27: INTERFACE=$(...), and the second program when it is empty
DetectInterface(links) ==
  IF AwkPeer(Lines(links)) # "" THEN AwkPeer(Lines(links))
  ELSE AwkPlain(Lines(links))

\* the script runs as the container's entrypoint; line 11: the trap is set
EntInit ==
  /\ epc = "debug"
  /\ INTERFACE = ""
  /\ attempt = 0
  /\ ent \in {[links |-> l, code |-> 0, tries |-> 0, waits |-> 0, leased |-> FALSE,
                monitored |-> FALSE, rounds |-> 0, signalled |-> FALSE,
                released |-> <<>>] : l \in ContainerLinks}
  /\ dockerfileDirs = ""
  /\ workers = 0
  /\ mainPc = "none"
  /\ exited = FALSE
  /\ exitCode = 0
  /\ failure = ""
  /\ dockerfileList = <<>>
  /\ imageNames = <<>>
  /\ spawned = 0
  /\ PoolIdle
  /\ DetIdle
  /\ CleanIdle

\* exit n
EntExit(n) ==
  /\ epc' = "exited"
  /\ ent' = [ent EXCEPT !.code = n]

\* lines 13-20: the debug output and sleep 2
EntSettle ==
  /\ epc = "debug"
  /\ epc' = "detect"
  /\ UNCHANGED <<INTERFACE, attempt, ent, mainVars, poolVars, detVars, cleanVars>>

\* lines 22-27: the interface is detected
EntDetectInterface ==
  /\ epc = "detect"
  /\ INTERFACE' = DetectInterface(ent.links)
  /\ epc' = "check"
  /\ UNCHANGED <<attempt, ent, mainVars, poolVars, detVars, cleanVars>>

\* lines 29-47: without an interface exit 1; otherwise the link is set up
\* and the retry loop is prepared
EntCheckInterface ==
  /\ epc = "check"
  /\ IF INTERFACE = ""
     THEN EntExit(1) /\ UNCHANGED attempt
     ELSE /\ attempt' = 1
          /\ epc' = "loop"
          /\ UNCHANGED ent
  /\ UNCHANGED <<INTERFACE, mainVars, poolVars, detVars, cleanVars>>

\* line 48: while [ $attempt -le $max_attempts ]
EntLoopTest ==
  /\ epc = "loop"
  /\ epc' = IF attempt <= max_attempts THEN "dhclient" ELSE "complete"
  /\ UNCHANGED <<INTERFACE, attempt, ent, mainVars, poolVars, detVars, cleanVars>>

\* lines 49-65: pkill dhclient, dhclient -v $INTERFACE; success leaves the loop
EntDhclient ==
  /\ epc = "dhclient"
  /\ \E ok \in BOOLEAN :
       /\ ent' = [ent EXCEPT !.tries = @ + 1, !.leased = ok]
       /\ epc' = IF ok THEN "complete" ELSE "failed"
  /\ UNCHANGED <<INTERFACE, attempt, mainVars, poolVars, detVars, cleanVars>>

\* the else branch with its test of the last attempt left out
EntAttemptFailedNoExit ==
  /\ epc = "failed"
  /\ epc' = "sleep5"
  /\ UNCHANGED <<INTERFACE, attempt, ent, mainVars, poolVars, detVars, cleanVars>>

\* lines 66-74: the attempt failed; the last one ends the script with exit 1
EntAttemptFailed ==
  /\ epc = "failed"
  /\ IF attempt = max_attempts
     THEN EntExit(1)
     ELSE epc' = "sleep5" /\ UNCHANGED ent
  /\ UNCHANGED <<INTERFACE, attempt, mainVars, poolVars, detVars, cleanVars>>

\* lines 75-78: sleep 5, attempt=$((attempt + 1)), back to the loop test
EntSleepAndCount ==
  /\ epc = "sleep5"
  /\ ent' = [ent EXCEPT !.waits = @ + 1]
  /\ attempt' = attempt + 1
  /\ epc' = "loop"
  /\ UNCHANGED <<INTERFACE, mainVars, poolVars, detVars, cleanVars>>

\* line 80: after the loop, "Container setup complete. Running indefinitely..."
EntSetupComplete ==
  /\ epc = "complete"
  /\ ent' = [ent EXCEPT !.monitored = TRUE]
  /\ epc' = "monitor"
  /\ UNCHANGED <<INTERFACE, attempt, mainVars, poolVars, detVars, cleanVars>>

\* lines 82-88: one round of the monitoring loop with its sleep 60
EntMonitor ==
  /\ epc = "monitor"
  /\ ent.rounds < MaxRounds
  /\ ent' = [ent EXCEPT !.rounds = @ + 1]
  /\ UNCHANGED <<epc, INTERFACE, attempt, mainVars, poolVars, detVars, cleanVars>>

\* a trap that only exits
EntSignalNoRelease ==
  /\ epc \notin {"off", "exited"}
  /\ epc' = "exited"
  /\ ent' = [ent EXCEPT !.signalled = TRUE, !.code = 0]
  /\ UNCHANGED <<INTERFACE, attempt, mainVars, poolVars, detVars, cleanVars>>

\* lines 4-11: SIGINT or SIGTERM; between two commands the shell runs
\* cleanup: dhclient -r $INTERFACE with the variable as it is now, exit 0
EntSignal ==
  /\ epc \notin {"off", "exited"}
  /\ epc' = "exited"
  /\ ent' = [ent EXCEPT !.signalled = TRUE,
                        !.released = IF INTERFACE = "" THEN <<>> ELSE <<INTERFACE>>,
                        !.code = 0]
  /\ UNCHANGED <<INTERFACE, attempt, mainVars, poolVars, detVars, cleanVars>>

EntNext ==
  \/ EntSettle
  \/ EntDetectInterface
  \/ EntCheckInterface
  \/ EntLoopTest
  \/ EntDhclient
  \/ EntAttemptFailed
  \/ EntSleepAndCount
  \/ EntSetupComplete
  \/ EntMonitor
  \/ EntSignal

EntSpec == EntInit /\ [][EntNext]_vars

\* --------------------------------------------------- claims: entrypoint.sh
\* C15: the entrypoint runs dhclient at most 3 times; the first success ends
\* the attempts and leads to the monitoring loop; every attempt after a
\* failed one comes after a wait; the third failure in a row ends the script
\* with status 1, and the monitoring loop is entered only with a lease.
C15_AtMostThreeDhcpAttempts ==
  /\ ent.tries <= 3
  /\ ent.leased => (epc \in {"complete", "monitor", "exited"} /\ ent.tries = attempt)
  /\ epc = "dhclient" => (ent.tries = attempt - 1 /\ ent.waits = ent.tries)
  /\ ent.monitored => ent.leased
  /\ (ent.tries = 3 /\ ~ent.leased) =>
       /\ epc \in {"failed", "exited"}
       /\ (epc = "exited" /\ ~ent.signalled) => ent.code = 1
  /\ (epc = "exited" /\ ent.code = 1 /\ INTERFACE # "") =>
       (ent.tries = 3 /\ ~ent.leased /\ ent.waits = 2 /\ ~ent.monitored)

C15_Witness ==
  /\ epc = "exited"
  /\ ent.code = 1
  /\ ent.tries = 3
  /\ ent.waits = 2
  /\ ~ent.signalled

\* C24: a SIGINT or SIGTERM met anywhere in the script (before the interface
\* is detected, in the DHCP retries, in the monitoring loop) ends it with
\* status 0 after dhclient -r: for the detected interface once there is one;
\* before that no interface is named and no lease is held.
C24_SignalReleasesAndExitsZero ==
  /\ ent.signalled =>
       /\ epc = "exited"
       /\ ent.code = 0
       /\ INTERFACE # "" =>
            (ent.released = <<INTERFACE>> /\ INTERFACE = DetectInterface(ent.links))
       /\ INTERFACE = "" => (ent.released = <<>> /\ ~ent.leased)
  /\ ent.leased => INTERFACE # ""
  /\ epc \in {"debug", "detect", "check", "loop", "dhclient", "failed", "sleep5",
               "complete", "monitor"} => ENABLED EntSignal

C24_Witness ==
  /\ ent.signalled
  /\ ent.leased
  /\ ent.monitored
  /\ ent.released = <<"eth0">>
  /\ ent.code = 0

\* ------------------------------------------- cleanup_network.sh: the script
RouteSubnet  == "10.0.0.0/24 proto kernel scope link src 10.0.0.42 \n"
RouteDocker  == "192.168.50.0/24 scope link \n"
RouteDefault == "default via 10.0.0.1 \n"

\* outputs of "ip route show dev macvlan0" on a host that has the interface
Macvlan0Routes ==
  { "", RouteSubnet, RouteSubnet \o RouteDocker, RouteDefault \o RouteSubnet \o RouteDocker }

\* hosts the script is run on: the caller's uid, the Docker network, the
\* interface macvlan0 and its routes
CleanHosts ==
  { [euid |-> u, net |-> n, link |-> l, routes |-> rt, route |-> "", code |-> 0,
     runs |-> 1] :
      u \in {0, 1000}, n \in BOOLEAN, l \in BOOLEAN, rt \in Macvlan0Routes }

\* routes belong to an interface that exists
PlausibleCleanHost(h) == ~h.link => h.routes = ""

\* head -n1 | awk '{print $1}' : the first field of the first line
FirstRouteTarget(routes) ==
  LET n == Index(routes, "\n")
      line == IF n = 0 THEN routes ELSE SubSeq(routes, 1, n - 1)
      starts == {i \in 1..Len(line) : ~IsSpace(Char(line, i))}
  IN IF starts = {} THEN "" ELSE FieldAt(line, MinOf(starts))

\* the route table without its first line
WithoutFirstRoute(routes) == SubSeq(routes, Index(routes, "\n") + 1, Len(routes))

\* the script is started
CleanInit ==
  /\ cpc = "root"
  /\ clean \in {h \in CleanHosts : PlausibleCleanHost(h)}
  /\ dockerfileDirs = ""
  /\ workers = 0
  /\ mainPc = "none"
  /\ exited = FALSE
  /\ exitCode = 0
  /\ failure = ""
  /\ dockerfileList = <<>>
  /\ imageNames = <<>>
  /\ spawned = 0
  /\ PoolIdle
  /\ DetIdle
  /\ EntIdle

\* lines 3-7: without root "Please run this script with sudo", exit 1
CleanCheckRoot ==
  /\ cpc = "root"
  /\ IF clean.euid # 0
     THEN cpc' = "exited" /\ clean' = [clean EXCEPT !.code = 1]
     ELSE cpc' = "network" /\ UNCHANGED clean
  /\ UNCHANGED <<mainVars, poolVars, detVars, entVars>>

\* lines 11-13: docker network rm ipocalypse_net 2>/dev/null || true
CleanRemoveNetwork ==
  /\ cpc = "network"
  /\ \E ok \in BOOLEAN :
       clean' = [clean EXCEPT !.net = IF ok THEN FALSE ELSE @]
  /\ cpc' = "link"
  /\ UNCHANGED <<mainVars, poolVars, detVars, entVars>>

\* lines 16-17: if ip link show macvlan0; without the interface nothing is left
CleanCheckLink ==
  /\ cpc = "link"
  /\ cpc' = IF clean.link THEN "loop" ELSE "finish"
  /\ UNCHANGED <<clean, mainVars, poolVars, detVars, entVars>>

\* line 19: while ip route show dev macvlan0 2>/dev/null | grep -q .
CleanLoopTest ==
  /\ cpc = "loop"
  /\ cpc' = IF clean.routes # "" THEN "delete" ELSE "down"
  /\ UNCHANGED <<clean, mainVars, poolVars, detVars, entVars>>

\* lines 20-22: route=$(... | head -n1 | awk '{print $1}') and
\* ip route del "$route" dev macvlan0 2>/dev/null || true ; a deletion that
\* fails leaves the table as it is, and the loop test comes next
CleanDeleteRoute ==
  /\ cpc = "delete"
  /\ \E ok \in BOOLEAN :
       clean' = [clean EXCEPT !.route = FirstRouteTarget(clean.routes),
                              !.routes = IF ok THEN WithoutFirstRoute(@) ELSE @]
  /\ cpc' = "loop"
  /\ UNCHANGED <<mainVars, poolVars, detVars, entVars>>

\* lines 25-26: ip link set macvlan0 down || true ; ip link delete macvlan0 || true
CleanDeleteLink ==
  /\ cpc = "down"
  /\ \E ok \in BOOLEAN :
       clean' = [clean EXCEPT !.link = IF ok THEN FALSE ELSE @]
  /\ cpc' = "finish"
  /\ UNCHANGED <<mainVars, poolVars, detVars, entVars>>

\* lines 29-32: "=== Cleanup Complete ===" and the end of the script, status 0
CleanFinish ==
  /\ cpc = "finish"
  /\ cpc' = "exited"
  /\ clean' = [clean EXCEPT !.code = 0]
  /\ UNCHANGED <<mainVars, poolVars, detVars, entVars>>

\* the script is run once more on the host as the run before left it
CleanRunAgain ==
  /\ cpc = "exited"
  /\ clean.runs < MaxRuns
  /\ cpc' = "root"
  /\ clean' = [clean EXCEPT !.runs = @ + 1, !.route = "", !.code = 0]
  /\ UNCHANGED <<mainVars, poolVars, detVars, entVars>>

CleanNext ==
  \/ CleanCheckRoot
  \/ CleanRemoveNetwork
  \/ CleanCheckLink
  \/ CleanLoopTest
  \/ CleanDeleteRoute
  \/ CleanDeleteLink
  \/ CleanFinish
  \/ CleanRunAgain

\* the shell goes on to its next command as long as there is one
CleanSpec == CleanInit /\ [][CleanNext]_vars /\ WF_vars(CleanNext)

\* ---------------------------------------------- claims: cleanup_network.sh
\* C25: on every host every run of the cleanup script comes to its end, also
\* when deletions of routes fail, and a run that finds network and interface
\* gone ends with status 0.
C25_CleanupTerminates ==
  /\ [](cpc = "root" => <>(cpc = "exited"))
  /\ []((cpc = "exited" /\ clean.euid = 0) => clean.code = 0)

=============================================================================
